---- MODULE Spec2Model ----
(***************************************************************************)
(* Model of backend.py: one websocket session served by handle_client.     *)
(*                                                                         *)
(* The handler coroutine runs on the event loop and is modelled between    *)
(* its suspension points (pc).  Every blocking read of a child's output    *)
(* runs on its own read_stream thread; the threads and the package         *)
(* installer hand their messages to the loop with                          *)
(* asyncio.run_coroutine_threadsafe; the loop runs what it is handed in    *)
(* the order of the calls, so a thread's message is on the connection      *)
(* (sent) in the order of its call, as is the handler's own                *)
(* "await ws.send_json".  The model follows the session until              *)
(* handle_client returns.                                                  *)
(***************************************************************************)
EXTENDS Integers, Sequences, FiniteSets, TLC

\* ---------------------------------------------------------------- bounds
\* inbound messages handled on the connection (the closing one not counted)
MaxMsgs == 2
\* output units the processes of one session produce in total
MaxOut == 1

\* ------------------------------------------------------------- constants
\* a value of a message field that is not a string (JSON null, number, ...)
NonString == "<non-string>"

\* what os.environ.get("GEMINI_API_KEY") can be at import time
KeyUnset == "None"
KeyValues == {KeyUnset, "", "secret-key"}

Languages == {"python", "c", "cpp", "java"}
Packages == {"none", "installed", "missing"}

VARIABLES
    GEMINI_API_KEY, \* module global, read once at start-up
    conn,           \* "open" while handle_client runs, "closed" once it returned
    pc,             \* position of the handler coroutine
    cur,            \* the message the handler is working on
    nreq,           \* number of inbound messages taken off the socket
    recvd,          \* recvd[r]: the type of inbound message r ("input_dropped": an
                    \* input taken while the input guard was false)
    process,        \* handle_client's local `process`: 0 is None, else index in procs
    procs,          \* every process this session spawned with Popen for a run
    pumps,          \* every read_stream thread this session started
    sent,           \* sent[r]: the messages written to the connection that belong to
                    \* inbound message r (for a process's output: its run), in order
    children,       \* every child process started, with the environment given
    netCalls,       \* requests posted to the remediation service
    ai_text_bound   \* whether the handler's local `ai_text` has been assigned

\* the processing of one reply of the remediation service (ai_fix, lines 254-340)
VARIABLES
    response,       \* how the awaited request ended and what the service replied
    ai_msg,         \* the message the ai_fix branch sent to the client for it
    ai_log          \* what the branch printed to the server log for it

aiVars == <<response, ai_msg, ai_log>>

\* several connections served by the one event loop in the one working directory
VARIABLES
    files,          \* files[name]: whose source text the file holds (0: none yet)
    spc,            \* spc[S]: position of the handler of session S in its run
    slang,          \* slang[S]: the language of the run session S asked for
    built,          \* built[S]: whose source the compiler run for S compiled
    ran             \* ran[S]: whose source the process spawned for S executes

sharedVars == <<files, spc, slang, built, ran>>

sessionVars == <<GEMINI_API_KEY, conn, pc, cur, nreq, recvd, process, procs, pumps,
                 sent, children, netCalls, ai_text_bound>>

vars == <<GEMINI_API_KEY, conn, pc, cur, nreq, recvd, process, procs, pumps,
          sent, children, netCalls, ai_text_bound, aiVars, sharedVars>>

\* ------------------------------------------------------------- messages
Msg(t, m, u, rq, rn) == [type |-> t, msg |-> m, unit |-> u, req |-> rq, run |-> rn]
Status(m, rq) == Msg("status", m, 0, rq, rq)
Stdout(m, rq) == Msg("stdout", m, 0, rq, rq)

\* ws.send_json(m): m goes out on the connection, after everything sent before
Emit(s, m) == [s EXCEPT ![m.run] = Append(@, m)]
\* a new inbound message r = Len(s) + 1 has been taken off the socket
Taken(s) == Append(s, <<>>)

NoMsg == [type |-> "none", language |-> "", pkg |-> "none", id |-> 0]

\* the files the run branches write and read, all in the server's working directory
FileNames == {"temp_script.py", "temp_code.c", "temp_code. cpp", "a.out"}
NoFiles == [f \in FileNames |-> 0]

\* no request to the remediation service has ended / nothing was sent for one
NoResponse == [how |-> "none", status |-> 0, body |-> "", text |-> <<>>]
NoReply == [type |-> "none", msg |-> "", carries |-> {}, data |-> <<>>]

Inbound ==
    [type : {"run"}, language : {"python"}, pkg : Packages, id : {0}]
    \cup [type : {"run"}, language : Languages \ {"python"}, pkg : {"none"}, id : {0}]
    \cup [type : {"input"}, language : {""}, pkg : {"none"}, id : {0}]
    \cup [type : {"ai_fix"}, language : {"c", NonString}, pkg : {"none"}, id : {0}]

\* the status texts of the run branches; the c and the cpp branch differ only in
\* the wording ('Compiling C.. .' / 'Compiling C++...', 'Running C Binary...' /
\* 'Running C++ Binary...'), which the model does not keep apart
Checking == "Checking dependencies..."
Compiling == "Compiling..."
CompilationFailed == "Compilation Failed"
RunningMsg(lang) == IF lang = "python" THEN "Running Python.. ." ELSE "Running Binary..."
Finished == "Program finished"

\* ---------------------------------------------------------- environment
\* os.environ of the server: the credential is in it when it is configured
OsEnviron(key) ==
    {"PATH", "HOME", "PORT"} \cup (IF key = KeyUnset THEN {} ELSE {"GEMINI_API_KEY"})

\* safe_env of the python branch: a dict literal, its keys do not depend on os.environ
PySafeEnv == {"PYTHONIOENCODING", "PATH", "PYTHONPATH", "HOME", "USER", "LANG"}

\* safe_env of the c and cpp branches
CSafeEnv == {"PATH", "HOME", "USER", "LANG", "TMPDIR"}

\* subprocess.check_call without env= : the child inherits os.environ
PipEnv(key) == OsEnviron(key)

Child(kind, env, rq) == [kind |-> kind, env |-> env, req |-> rq]

\* -------------------------------------------------------------- process
\* out: the write end of the stdout pipe is open (the process has neither exited
\* nor closed its output)
NewProc(rq, lang) ==
    [run |-> rq, lang |-> lang, alive |-> TRUE, out |-> TRUE, pipe |-> <<>>, nout |-> 0,
     stdin |-> 0]

\* Popen.poll() is None
Polls(p) == procs[p].alive

\* Popen.kill(): a no-op on a process that has exited
Kill(ps, p) == [ps EXCEPT ![p].alive = FALSE, ![p].out = FALSE]

\* the finally block of handle_client: `if process: process.kill()`
FinallyKill(ps, held) == IF held # 0 THEN Kill(ps, held) ELSE ps

\* a pump start with one thread for stdout and one for stderr, which is the same pipe
StartPumpTwice(tp, held, rq) ==
    IF held # 0
    THEN tp \o <<[proc |-> held, by |-> rq, pc |-> "read", char |-> 0],
                 [proc |-> held, by |-> rq, pc |-> "read", char |-> 0]>>
    ELSE tp

\* `if process:` then start a read_stream thread on process.stdout
StartPump(tp, held, rq) ==
    IF held # 0
    THEN Append(tp, [proc |-> held, by |-> rq, pc |-> "read", char |-> 0])
    ELSE tp

\* a guard that forgets process.poll()
InputGuardNoPoll(held) == held # 0

\* `if process and process.poll() is None`
InputGuard(held) == held # 0 /\ Polls(held)

\* what the log of inbound messages keeps of message m
Seen(m, held) ==
    IF m.type = "input" /\ ~InputGuard(held) THEN "input_dropped" ELSE m.type

\* a check that tests `is None` instead of truthiness
NoCredentialIsNone(key) == key = KeyUnset

\* `if not GEMINI_API_KEY`
NoCredential(key) == key \in {KeyUnset, ""}

\* ----------------------------------------------------------------- init
Init ==
    /\ GEMINI_API_KEY \in KeyValues
    /\ conn = "open"
    /\ pc = "recv"
    /\ cur = NoMsg
    /\ nreq = 0
    /\ recvd = <<>>
    /\ process = 0
    /\ procs = <<>>
    /\ pumps = <<>>
    /\ sent = <<>>
    /\ children = {}
    /\ netCalls = 0
    /\ ai_text_bound = FALSE
    /\ response = NoResponse
    /\ ai_msg = NoReply
    /\ ai_log = {}
    /\ files = NoFiles
    /\ spc = <<>>
    /\ slang = <<>>
    /\ built = <<>>
    /\ ran = <<>>

\* an exception that leaves `async for`: finally kills `process`, the handler ends
Raise ==
    /\ procs' = FinallyKill(procs, process)
    /\ conn' = "closed"
    /\ pc' = "done"
    /\ cur' = NoMsg

\* ------------------------------------------------------ handler: receive
\* a handler that reads the process's output itself, instead of a thread, and is
\* back at the message loop only at end of stream
CanRecvBlockingRead ==
    /\ pc = "recv" /\ conn = "open" /\ nreq < MaxMsgs
    /\ \A t \in 1..Len(pumps) : pumps[t].pc = "done"

CanRecv == pc = "recv" /\ conn = "open" /\ nreq < MaxMsgs

\* run, language == 'python': status, then the dependency check on the executor
RecvRunPython(m) ==
    /\ CanRecv
    /\ m.type = "run" /\ m.language = "python"
    /\ nreq' = nreq + 1
    /\ recvd' = Append(recvd, Seen(m, process))
    /\ cur' = [m EXCEPT !.id = nreq + 1]
    /\ sent' = Emit(Taken(sent), Status(Checking, nreq + 1))
    /\ pc' = "py_deps"
    /\ UNCHANGED <<aiVars, sharedVars, GEMINI_API_KEY, conn, process, procs, pumps, children, netCalls, ai_text_bound>>

\* run, language 'c' or 'cpp': the source file is written, status, then the compiler
RecvRunCompiled(m) ==
    /\ CanRecv
    /\ m.type = "run" /\ m.language \in {"c", "cpp"}
    /\ nreq' = nreq + 1
    /\ recvd' = Append(recvd, Seen(m, process))
    /\ cur' = [m EXCEPT !.id = nreq + 1]
    /\ sent' = Emit(Taken(sent), Status(Compiling, nreq + 1))
    /\ pc' = "compile"
    /\ UNCHANGED <<aiVars, sharedVars, GEMINI_API_KEY, conn, process, procs, pumps, children, netCalls, ai_text_bound>>

\* run, any other language: no branch is taken, `if process:` is reached as it is
RecvRunOther(m) ==
    /\ CanRecv
    /\ m.type = "run" /\ m.language \notin {"python", "c", "cpp"}
    /\ nreq' = nreq + 1
    /\ recvd' = Append(recvd, Seen(m, process))
    /\ pumps' = StartPump(pumps, process, nreq + 1)
    /\ sent' = Taken(sent)
    /\ UNCHANGED <<aiVars, sharedVars, GEMINI_API_KEY, conn, pc, cur, process, procs, children, netCalls, ai_text_bound>>

\* input: written to process.stdin when the guard holds; a failing write is swallowed
RecvInput(m) ==
    /\ CanRecv
    /\ m.type = "input"
    /\ nreq' = nreq + 1
    /\ recvd' = Append(recvd, Seen(m, process))
    /\ \/ /\ InputGuard(process)
          /\ \E ok \in BOOLEAN :
                procs' = IF ok THEN [procs EXCEPT ![process].stdin = @ + 1] ELSE procs
       \/ /\ ~InputGuard(process)
          /\ procs' = procs
    /\ sent' = Taken(sent)
    /\ UNCHANGED <<aiVars, sharedVars, GEMINI_API_KEY, conn, pc, cur, process, pumps, children, netCalls, ai_text_bound>>

\* ai_fix: the credential check, the prompt (language.upper(), outside any try),
\* then the request is posted and the handler awaits the reply
RecvAiFix(m) ==
    /\ CanRecv
    /\ m.type = "ai_fix"
    /\ nreq' = nreq + 1
    /\ recvd' = Append(recvd, Seen(m, process))
    /\ \/ /\ NoCredential(GEMINI_API_KEY)
          /\ sent' = Emit(Taken(sent), Msg("ai_error", "GEMINI_API_KEY not configured", 0,
                                      nreq + 1, nreq + 1))
          /\ UNCHANGED <<conn, pc, cur, procs, netCalls>>
       \/ /\ ~NoCredential(GEMINI_API_KEY)
          /\ m.language = NonString
          /\ Raise
          /\ UNCHANGED <<sent, netCalls, ai_text_bound>>
       \/ /\ ~NoCredential(GEMINI_API_KEY)
          /\ m.language # NonString
          /\ netCalls' = netCalls + 1
          /\ cur' = [m EXCEPT !.id = nreq + 1]
          /\ pc' = "ai_wait"
          /\ sent' = Taken(sent)
          /\ UNCHANGED <<conn, procs>>
    /\ UNCHANGED <<aiVars, sharedVars, GEMINI_API_KEY, process, pumps, children, ai_text_bound>>

\* the client closes the connection: `async for` ends, finally runs
RecvClose ==
    /\ pc = "recv" /\ conn = "open"
    /\ Raise
    /\ UNCHANGED <<aiVars, sharedVars, GEMINI_API_KEY, nreq, recvd, process, pumps, sent, children, netCalls, ai_text_bound>>

\* --------------------------------------------------- handler: python run
\* check_and_install_packages on the executor thread.  install_package returns at
\* once for a package find_spec finds; for a missing one it queues a status, runs
\* pip with the inherited environment and queues an error text when pip fails.
\* The executor future then wakes the handler through the same loop queue.
CheckAndInstall ==
    /\ pc = "py_deps"
    /\ \/ /\ cur.pkg \in {"none", "installed"}
          /\ sent' = sent
          /\ children' = children
       \/ /\ cur.pkg = "missing"
          /\ children' = children \cup {Child("pip", PipEnv(GEMINI_API_KEY), cur.id)}
          /\ \E ok \in BOOLEAN :
                sent' = IF ok
                        THEN Emit(sent, Status("Installing missing package", cur.id))
                        ELSE Emit(Emit(sent, Status("Installing missing package", cur.id)),
                                  Stdout("[Error] Failed to install", cur.id))
    /\ pc' = "py_wait"
    /\ UNCHANGED <<aiVars, sharedVars, GEMINI_API_KEY, conn, cur, nreq, recvd, process, procs, pumps, netCalls, ai_text_bound>>

\* the handler resumes: temp_script.py is written, Popen with safe_env, status.
\* Popen raising is not caught inside the loop.
PySpawn ==
    /\ pc = "py_wait"
    /\ \/ /\ procs' = Append(procs, NewProc(cur.id, "python"))
          /\ process' = Len(procs) + 1
          /\ children' = children \cup {Child("python", PySafeEnv, cur.id)}
          /\ sent' = Emit(sent, Status(RunningMsg("python"), cur.id))
          /\ pc' = "py_pump"
          /\ UNCHANGED <<conn, cur>>
       \/ /\ Raise
          /\ UNCHANGED <<process, children, sent>>
    /\ UNCHANGED <<aiVars, sharedVars, GEMINI_API_KEY, nreq, recvd, pumps, netCalls, ai_text_bound>>

\* after `await ws.send_json(Running Python)`: `if process:` starts the thread
PyStartPump ==
    /\ pc = "py_pump"
    /\ pumps' = StartPump(pumps, process, cur.id)
    /\ pc' = "recv"
    /\ cur' = NoMsg
    /\ UNCHANGED <<aiVars, sharedVars, GEMINI_API_KEY, conn, nreq, recvd, process, procs, sent, children, netCalls, ai_text_bound>>

\* ------------------------------------------------- handler: compiled run
\* a compile step whose failure branch lacks the `continue`
AfterCompileNoContinue(returncode) == "spawn"

\* `if compile_process.returncode != 0: ...; continue`, else on to Popen
AfterCompile(returncode) == IF returncode # 0 THEN "recv" ELSE "spawn"

\* subprocess.run of the compiler (gcc or g++): exit 0, exit non-zero, or it
\* cannot be started
Compile ==
    /\ pc = "compile"
    /\ \/ \E returncode \in {0, 1} :
             /\ children' = children \cup {Child("compiler", CSafeEnv, cur.id)}
             /\ sent' = IF returncode # 0
                        THEN Emit(Emit(sent, Stdout("Compilation Error", cur.id)),
                                  Status(CompilationFailed, cur.id))
                        ELSE Emit(sent, Status(RunningMsg(cur.language), cur.id))
             /\ pc' = AfterCompile(returncode)
             /\ cur' = IF AfterCompile(returncode) = "recv" THEN NoMsg ELSE cur
             /\ UNCHANGED <<conn, procs>>
       \/ /\ Raise
          /\ UNCHANGED <<children, sent>>
    /\ UNCHANGED <<aiVars, sharedVars, GEMINI_API_KEY, nreq, recvd, process, pumps, netCalls, ai_text_bound>>

\* Popen of the binary with safe_env, then `if process:` starts the thread
SpawnBinary ==
    /\ pc = "spawn"
    /\ \/ /\ procs' = Append(procs, NewProc(cur.id, "binary"))
          /\ process' = Len(procs) + 1
          /\ children' = children \cup {Child("binary", CSafeEnv, cur.id)}
          /\ pumps' = StartPump(pumps, Len(procs) + 1, cur.id)
          /\ pc' = "recv"
          /\ cur' = NoMsg
          /\ conn' = conn
       \/ /\ Raise
          /\ UNCHANGED <<process, children, pumps>>
    /\ UNCHANGED <<aiVars, sharedVars, GEMINI_API_KEY, nreq, recvd, sent, netCalls, ai_text_bound>>

\* ------------------------------------------------------ handler: ai_fix
\* how the awaited request can end, by the path taken through lines 254-340
AiOutcomes ==
    {"network_error", "non200", "bad_outer_json", "bad_structure", "type_error",
     "bad_inner_json", "missing_fields", "ok"}

\* the outcomes in which line 287 assigns ai_text
BindsAiText(o) == o \in {"bad_inner_json", "missing_fields", "ok"}

\* the one message each path sends
AiReplyMsg(o, bound, rq) ==
    CASE o = "network_error" -> Msg("ai_error", "Network error", 0, rq, rq)
      [] o = "non200" -> Msg("ai_error", "AI API Error (Status)", 0, rq, rq)
      [] o = "bad_outer_json" ->
            \* the handler of JSONDecodeError prints ai_text[:300]
            IF bound THEN Msg("ai_error", "AI returned invalid JSON", 0, rq, rq)
            ELSE Msg("ai_error", "Server error: UnboundLocalError", 0, rq, rq)
      [] o = "bad_structure" -> Msg("ai_error", "Unexpected API response", 0, rq, rq)
      [] o = "type_error" -> Msg("ai_error", "Server error: TypeError", 0, rq, rq)
      [] o = "bad_inner_json" -> Msg("ai_error", "AI returned invalid JSON", 0, rq, rq)
      [] o = "missing_fields" -> Msg("ai_error", "Invalid AI response format", 0, rq, rq)
      [] o = "ok" -> Msg("ai_response", "", 0, rq, rq)

AiReply ==
    /\ pc = "ai_wait"
    /\ \E o \in AiOutcomes :
          /\ sent' = Emit(sent, AiReplyMsg(o, ai_text_bound, cur.id))
          /\ ai_text_bound' = (ai_text_bound \/ BindsAiText(o))
    /\ pc' = "recv"
    /\ cur' = NoMsg
    /\ UNCHANGED <<aiVars, sharedVars, GEMINI_API_KEY, conn, nreq, recvd, process, procs, pumps, children, netCalls>>

\* ----------------------------------------------------- read_stream thread
\* stream.read(1) returns a character, or '' at end of stream (the pipe is drained
\* and its write end is closed: the process has exited or has closed its output):
\* break, and the finished status is queued
ReadStream(t) ==
    /\ conn = "open"
    /\ pumps[t].pc = "read"
    /\ LET p == pumps[t].proc IN
       \/ /\ procs[p].pipe # <<>>
          /\ pumps' = [pumps EXCEPT ![t].pc = "send", ![t].char = Head(procs[p].pipe)]
          /\ procs' = [procs EXCEPT ![p].pipe = Tail(@)]
          /\ sent' = sent
       \/ /\ procs[p].pipe = <<>> /\ ~procs[p].out
          /\ pumps' = [pumps EXCEPT ![t].pc = "done"]
          /\ sent' = Emit(sent, Msg("status", Finished, 0, pumps[t].by, procs[p].run))
          /\ procs' = procs
    /\ UNCHANGED <<aiVars, sharedVars, GEMINI_API_KEY, conn, pc, cur, nreq, recvd, process, children, netCalls,
                   ai_text_bound>>

\* stream.read(1) raises (undecodable output): `except Exception: pass`
ReadStreamRaises(t) ==
    /\ conn = "open"
    /\ pumps[t].pc = "read"
    /\ LET p == pumps[t].proc IN
       /\ procs[p].pipe # <<>>
       /\ procs' = [procs EXCEPT ![p].pipe = Tail(@)]
    /\ pumps' = [pumps EXCEPT ![t].pc = "done"]
    /\ UNCHANGED <<aiVars, sharedVars, GEMINI_API_KEY, conn, pc, cur, nreq, recvd, process, sent, children,
                   netCalls, ai_text_bound>>

\* run_coroutine_threadsafe(ws.send_json({'type': 'stdout', 'data': char}), loop)
ReadStreamSend(t) ==
    /\ conn = "open"
    /\ pumps[t].pc = "send"
    /\ sent' = Emit(sent, Msg("stdout", "", pumps[t].char, pumps[t].by,
                              procs[pumps[t].proc].run))
    /\ pumps' = [pumps EXCEPT ![t].pc = "read", ![t].char = 0]
    /\ UNCHANGED <<aiVars, sharedVars, GEMINI_API_KEY, conn, pc, cur, nreq, recvd, process, procs, children,
                   netCalls, ai_text_bound>>

\* ------------------------------------------------------- spawned process
RECURSIVE TotalOut(_)
TotalOut(ps) == IF ps = <<>> THEN 0 ELSE Head(ps).nout + TotalOut(Tail(ps))

\* the program writes its next output unit; units are numbered in production order
ProcEmit(p) ==
    /\ conn = "open"
    /\ procs[p].alive /\ procs[p].out /\ TotalOut(procs) < MaxOut
    /\ procs' = [procs EXCEPT ![p].nout = @ + 1, ![p].pipe = Append(@, procs[p].nout + 1)]
    /\ UNCHANGED <<aiVars, sharedVars, GEMINI_API_KEY, conn, pc, cur, nreq, recvd, process, pumps, sent,
                   children, netCalls, ai_text_bound>>

\* the program closes its output (stdout and stderr) and runs on
ProcCloseStdout(p) ==
    /\ conn = "open"
    /\ procs[p].alive /\ procs[p].out
    /\ procs' = [procs EXCEPT ![p].out = FALSE]
    /\ UNCHANGED <<aiVars, sharedVars, GEMINI_API_KEY, conn, pc, cur, nreq, recvd, process, pumps, sent,
                   children, netCalls, ai_text_bound>>

\* the program exits by itself
ProcExit(p) ==
    /\ conn = "open"
    /\ procs[p].alive
    /\ procs' = [procs EXCEPT ![p].alive = FALSE, ![p].out = FALSE]
    /\ UNCHANGED <<aiVars, sharedVars, GEMINI_API_KEY, conn, pc, cur, nreq, recvd, process, pumps, sent,
                   children, netCalls, ai_text_bound>>

\* ----------------------------------------------------------------- spec
Next ==
    \/ \E m \in Inbound : RecvRunPython(m)
    \/ \E m \in Inbound : RecvRunCompiled(m)
    \/ \E m \in Inbound : RecvRunOther(m)
    \/ \E m \in Inbound : RecvInput(m)
    \/ \E m \in Inbound : RecvAiFix(m)
    \/ RecvClose
    \/ CheckAndInstall
    \/ PySpawn
    \/ PyStartPump
    \/ Compile
    \/ SpawnBinary
    \/ AiReply
    \/ \E t \in 1..Len(pumps) : ReadStream(t)
    \/ \E t \in 1..Len(pumps) : ReadStreamRaises(t)
    \/ \E t \in 1..Len(pumps) : ReadStreamSend(t)
    \/ \E p \in 1..Len(procs) : ProcEmit(p)
    \/ \E p \in 1..Len(procs) : ProcExit(p)

Spec == Init /\ [][Next]_vars

\* The programs of Spec keep their output open until they exit.  ClosingSpec adds
\* the programs that close it earlier and run on.
ClosingNext ==
    \/ Next
    \/ \E p \in 1..Len(procs) : ProcCloseStdout(p)

ClosingSpec == Init /\ [][ClosingNext]_vars

\* the steps of the handler coroutine after it took a message
HandlerStep ==
    CheckAndInstall \/ PySpawn \/ PyStartPump \/ Compile \/ SpawnBinary \/ AiReply

\* ============================================ the remediation reply
\* The text of a reply is a sequence of tokens: the fence marker, the word json
\* that may follow it, white space, and the tokens of a JSON document.
MaxField == 1

\* the marker of three backticks
Fence == "<fence>"
JsonTag == "json"
Ws == "<newline>"

Required == {"explanation", "fixed_code"}

\* what the service can put into a field value: plain text, a fence, the word json
FieldTokens == {"x", Fence, JsonTag}
FieldTexts == UNION {[1..n -> FieldTokens] : n \in 1..MaxField}

\* the values json.loads can return for the text the service generated
JsonValue(kind, keys, e, f) == [kind |-> kind, keys |-> keys, explanation |-> e, fixed_code |-> f]

Dicts ==
    {JsonValue("dict", ks, e, f) :
        ks \in SUBSET Required,
        e \in FieldTexts \cup {<<>>},
        f \in FieldTexts \cup {<<>>}}

JsonValues ==
    {v \in Dicts : /\ (v.explanation = <<>>) = ("explanation" \notin v.keys)
                   /\ (v.fixed_code = <<>>) = ("fixed_code" \notin v.keys)}
    \cup {JsonValue(k, ks, <<>>, <<>>) : k \in {"list", "str"}, ks \in SUBSET Required}
    \cup {JsonValue(k, {}, <<>>, <<>>) : k \in {"number", "null"}}

Invalid == JsonValue("invalid", {}, <<>>, <<>>)

\* the JSON text of a value: a dict {"explanation": e, "fixed_code": f}, a list or
\* a string of the words in keys, a number, null
Words(v) ==
    (IF "explanation" \in v.keys THEN <<"explanation">> ELSE <<>>)
    \o (IF "fixed_code" \in v.keys THEN <<"fixed_code">> ELSE <<>>)

Render(v) ==
    CASE v.kind = "dict" ->
            <<"{">> \o (IF "explanation" \in v.keys
                        THEN <<"explanation:">> \o v.explanation ELSE <<>>)
                    \o (IF "fixed_code" \in v.keys
                        THEN <<"fixed_code:">> \o v.fixed_code ELSE <<>>)
                    \o <<"}">>
      [] v.kind = "list" -> <<"[">> \o Words(v) \o <<"]">>
      [] v.kind = "str" -> <<"<quote>">> \o Words(v) \o <<"<quote>">>
      [] v.kind = "number" -> <<"1">>
      [] v.kind = "null" -> <<"null">>

\* json.loads(ai_text): the value whose text it is; JSONDecodeError otherwise
Parse(text) ==
    IF \E v \in JsonValues : Render(v) = text
    THEN CHOOSE v \in JsonValues : Render(v) = text
    ELSE Invalid

\* `k in parsed_response`: a key of a dict, an element of a list, a substring of a
\* string; TypeError on a number and on None
Contains(v, k) == k \in v.keys

\* str.strip()
RECURSIVE LStrip(_)
LStrip(t) == IF t # <<>> /\ Head(t) = Ws THEN LStrip(Tail(t)) ELSE t

RECURSIVE RStrip(_)
RStrip(t) == IF t # <<>> /\ t[Len(t)] = Ws THEN RStrip(SubSeq(t, 1, Len(t) - 1)) ELSE t

Strip(t) == RStrip(LStrip(t))

\* str.startswith(sep)
StartsWith(t, sep) == Len(t) >= Len(sep) /\ SubSeq(t, 1, Len(sep)) = sep

\* str.find(sep) + 1: the first position at which sep occurs in t, 0 when none
Find(t, sep) ==
    LET at == {i \in 1..(Len(t) - Len(sep) + 1) : SubSeq(t, i, i + Len(sep) - 1) = sep}
    IN  IF at = {} THEN 0 ELSE CHOOSE i \in at : \A j \in at : i <= j

\* t.split(sep)[0]
Split0(t, sep) == IF Find(t, sep) = 0 THEN t ELSE SubSeq(t, 1, Find(t, sep) - 1)

\* t.split(sep)[1], for a t in which sep occurs
Split1(t, sep) == Split0(SubSeq(t, Find(t, sep) + Len(sep), Len(t)), sep)

\* "Clean markdown if present"
Clean(ai_text) ==
    LET t == Strip(ai_text)
    IN  IF StartsWith(t, <<Fence, JsonTag>>)
        THEN Strip(Split0(Split1(t, <<Fence, JsonTag>>), <<Fence>>))
        ELSE IF StartsWith(t, <<Fence>>)
             THEN Strip(Split0(Split1(t, <<Fence>>), <<Fence>>))
             ELSE t

\* the generated text, bare or wrapped in fence markers
Wrappers == {"none", "fence", "fence_json"}

Wrap(w, t) ==
    CASE w = "none" -> t
      [] w = "fence" -> <<Fence, Ws>> \o t \o <<Ws, Fence>>
      [] w = "fence_json" -> <<Fence, JsonTag, Ws>> \o t \o <<Ws, Fence>>

Texts == {Wrap(w, Render(v)) : w \in Wrappers, v \in JsonValues} \cup {<<"x">>}

\* how the awaited request can end: session.post raises aiohttp.ClientError or
\* another exception, or the service replies with a status and a body; the body
\* is no JSON, JSON without candidates[0].content.parts[0].text, JSON that cannot
\* be indexed that way, or JSON with a generated text
AiResponse(how, status, body, text) ==
    [how |-> how, status |-> status, body |-> body, text |-> text]

Responses ==
    {AiResponse(h, 0, "", <<>>) : h \in {"client_error", "other_error"}}
    \cup {AiResponse("reply", 500, "not_json", <<>>)}
    \cup {AiResponse("reply", 200, b, <<>>) : b \in {"not_json", "no_candidates", "not_indexable"}}
    \cup {AiResponse("reply", 200, "text", t) : t \in Texts}

AiError(msg, carries) == [type |-> "ai_error", msg |-> msg, carries |-> carries, data |-> <<>>]

\* a handler that sends the text of the exception: f'Server error: {e}'
ServerErrorWithText == AiError("Server error: {e}", {"exception text"})

\* f'Server error: {type(e).__name__}'
ServerError == AiError("Server error: {type(e).__name__}", {"exception type"})

\* the message the branch sends for a response; bound: ai_text is assigned already
AiResult(r, bound) ==
    CASE r.how = "client_error" -> AiError("Network error", {})
      [] r.how = "other_error" -> ServerError
      [] r.how = "reply" /\ r.status # 200 ->
            AiError("AI API Error (Status {resp.status})", {"status"})
      [] r.how = "reply" /\ r.status = 200 /\ r.body = "not_json" ->
            IF bound THEN AiError("AI returned invalid JSON", {}) ELSE ServerError
      [] r.how = "reply" /\ r.status = 200 /\ r.body = "no_candidates" ->
            AiError("Unexpected API response", {})
      [] r.how = "reply" /\ r.status = 200 /\ r.body = "not_indexable" -> ServerError
      [] r.how = "reply" /\ r.status = 200 /\ r.body = "text" ->
            LET parsed_response == Parse(Clean(r.text))
            IN  IF parsed_response = Invalid
                THEN AiError("AI returned invalid JSON", {})
                ELSE IF parsed_response.kind \in {"number", "null"}
                THEN ServerError
                ELSE IF /\ Contains(parsed_response, "explanation")
                        /\ Contains(parsed_response, "fixed_code")
                THEN [type |-> "ai_response", msg |-> "", carries |-> {},
                      data |-> parsed_response]
                ELSE AiError("Invalid AI response format", {})

\* what the branch prints on the way
AiLog(r, bound) ==
    CASE r.how = "client_error" -> {"exception text"}
      [] r.how = "other_error" -> {"exception text", "traceback"}
      [] r.how = "reply" ->
            {"status", "body"}
            \cup (IF AiResult(r, bound) = ServerError THEN {"exception text", "traceback"}
                  ELSE {})
            \cup (IF r.status = 200 /\ r.body \in {"not_json", "no_candidates"}
                  THEN {"exception text"} ELSE {})
            \cup (IF r.status = 200 /\ r.body = "text" /\ Parse(Clean(r.text)) = Invalid
                  THEN {"exception text", "ai_text"} ELSE {})
            \cup (IF AiResult(r, bound).msg = "Invalid AI response format"
                  THEN {"parsed_response"} ELSE {})

\* a session whose handler awaits the reply to an ai_fix request it posted
AiInit ==
    /\ GEMINI_API_KEY = "secret-key"
    /\ conn = "open"
    /\ pc = "ai_wait"
    /\ cur = [type |-> "ai_fix", language |-> "c", pkg |-> "none", id |-> 1]
    /\ nreq = 1
    /\ recvd = <<"ai_fix">>
    /\ process = 0
    /\ procs = <<>>
    /\ pumps = <<>>
    /\ sent = <<<<>>>>
    /\ children = {}
    /\ netCalls = 1
    /\ ai_text_bound \in BOOLEAN
    /\ response \in Responses
    /\ ai_msg = NoReply
    /\ ai_log = {}
    /\ files = NoFiles
    /\ spc = <<>>
    /\ slang = <<>>
    /\ built = <<>>
    /\ ran = <<>>

\* the request ends and lines 272-340 run on what came back
AiHandle ==
    /\ pc = "ai_wait" /\ response # NoResponse
    /\ ai_msg' = AiResult(response, ai_text_bound)
    /\ ai_log' = AiLog(response, ai_text_bound)
    /\ ai_text_bound' = (ai_text_bound \/ (response.how = "reply" /\ response.status = 200
                                           /\ response.body = "text"))
    /\ pc' = "recv"
    /\ cur' = NoMsg
    /\ UNCHANGED <<GEMINI_API_KEY, conn, nreq, recvd, process, procs, pumps, sent,
                   children, netCalls, response, sharedVars>>

AiNext == AiHandle

AiSpec == AiInit /\ [][AiNext]_vars

\* ================================= concurrent sessions, one directory
\* Every connection is a handle_client coroutine on the same event loop, and every
\* run branch uses the same file names in the same working directory.  Session S
\* submits its own source text, S.  A handler runs alone between two awaits; at
\* an await the loop may run another handler.  The interpreter started by Popen
\* opens temp_script.py by itself, some time after Popen returned.
MaxSessions == 2

Sessions == 1..MaxSessions

SourceFile(lang) ==
    CASE lang = "python" -> "temp_script.py"
      [] lang = "c" -> "temp_code.c"
      [] lang = "cpp" -> "temp_code. cpp"

SharedInit ==
    /\ GEMINI_API_KEY = KeyUnset
    /\ conn = "open"
    /\ pc = "recv"
    /\ cur = NoMsg
    /\ nreq = 0
    /\ recvd = <<>>
    /\ process = 0
    /\ procs = <<>>
    /\ pumps = <<>>
    /\ sent = <<>>
    /\ children = {}
    /\ netCalls = 0
    /\ ai_text_bound = FALSE
    /\ response = NoResponse
    /\ ai_msg = NoReply
    /\ ai_log = {}
    /\ files = NoFiles
    /\ spc = [S \in Sessions |-> "recv"]
    /\ slang = [S \in Sessions |-> ""]
    /\ built = [S \in Sessions |-> 0]
    /\ ran = [S \in Sessions |-> 0]

\* run / python: status, then `await loop.run_in_executor(...)`
SRunPython(S) ==
    /\ spc[S] = "recv"
    /\ slang' = [slang EXCEPT ![S] = "python"]
    /\ spc' = [spc EXCEPT ![S] = "py_deps"]
    /\ UNCHANGED <<files, built, ran, sessionVars, aiVars>>

\* the handler resumes: temp_script.py is written and the interpreter is started
\* on the file name; `await ws.send_json(Running)`, the thread is started and the
\* handler awaits the next message
SPyWriteSpawn(S) ==
    /\ spc[S] = "py_deps"
    /\ files' = [files EXCEPT !["temp_script.py"] = S]
    /\ spc' = [spc EXCEPT ![S] = "py_started"]
    /\ UNCHANGED <<slang, built, ran, sessionVars, aiVars>>

\* the interpreter of session S opens and reads temp_script.py
SPyLoad(S) ==
    /\ spc[S] = "py_started"
    /\ ran' = [ran EXCEPT ![S] = files["temp_script.py"]]
    /\ spc' = [spc EXCEPT ![S] = "running"]
    /\ UNCHANGED <<files, slang, built, sessionVars, aiVars>>

\* run / c or cpp: the source file is written, then `await ws.send_json(Compiling)`
SRunCompiled(S, lang) ==
    /\ spc[S] = "recv"
    /\ lang \in {"c", "cpp"}
    /\ slang' = [slang EXCEPT ![S] = lang]
    /\ files' = [files EXCEPT ![SourceFile(lang)] = S]
    /\ spc' = [spc EXCEPT ![S] = "compile"]
    /\ UNCHANGED <<built, ran, sessionVars, aiVars>>

\* subprocess.run of gcc / g++ on the source file, output ./a.out; on failure the
\* two messages and `continue`, else `await ws.send_json(Running)`
SCompile(S) ==
    /\ spc[S] = "compile"
    /\ built' = [built EXCEPT ![S] = files[SourceFile(slang[S])]]
    /\ \E returncode \in {0, 1} :
          IF returncode # 0
          THEN /\ spc' = [spc EXCEPT ![S] = "recv"]
               /\ files' = files
          ELSE /\ spc' = [spc EXCEPT ![S] = "spawn"]
               /\ files' = [files EXCEPT !["a.out"] = files[SourceFile(slang[S])]]
    /\ UNCHANGED <<slang, ran, sessionVars, aiVars>>

\* Popen of ./a.out: the binary that is there now is executed
SSpawnBinary(S) ==
    /\ spc[S] = "spawn"
    /\ ran' = [ran EXCEPT ![S] = files["a.out"]]
    /\ spc' = [spc EXCEPT ![S] = "running"]
    /\ UNCHANGED <<files, slang, built, sessionVars, aiVars>>

SharedNext ==
    \/ \E S \in Sessions : SRunPython(S)
    \/ \E S \in Sessions : SPyWriteSpawn(S)
    \/ \E S \in Sessions : SPyLoad(S)
    \/ \E S \in Sessions : \E lang \in {"c", "cpp"} : SRunCompiled(S, lang)
    \/ \E S \in Sessions : SCompile(S)
    \/ \E S \in Sessions : SSpawnBinary(S)

SharedSpec == SharedInit /\ [][SharedNext]_vars

\* ======================================================== properties
Runs == 1..Len(sent)
Procs == 1..Len(procs)
Pumps == 1..Len(pumps)

\* the output units of a process's run that reached the client, in order
UnitsOf(r) ==
    LET out == SelectSeq(sent[r], LAMBDA m : m.type = "stdout" /\ m.unit > 0)
    IN  [i \in 1..Len(out) |-> out[i].unit]

\* positions of the 'Program finished' status among the messages of run r
FinishedAt(r) == {i \in 1..Len(sent[r]) : sent[r][i].msg = Finished}

PumpsOf(p) == {t \in Pumps : pumps[t].proc = p}

\* every read_stream thread started on p's output has ended
Drained(p) == PumpsOf(p) # {} /\ \A t \in PumpsOf(p) : pumps[t].pc = "done"

Alive == {p \in Procs : procs[p].alive}

NoKey == GEMINI_API_KEY \in {KeyUnset, ""}

PreparingPcs == {"py_deps", "py_wait", "py_pump", "compile", "spawn"}

\* C1: for every run, the stdout units the client receives are the units the
\* process produced, in production order (units are numbered 1, 2, ... as they
\* are produced), and once the reading has ended none is missing.
C1_OutputInOrderNoDrops ==
    \A p \in Procs :
        LET u == UnitsOf(procs[p].run)
        IN  /\ \A i \in 1..Len(u) : u[i] = i
            /\ Drained(p) => Len(u) = procs[p].nout

\* C2: for every run that spawned a process the client receives exactly one
\* 'Program finished' status: never two, no stdout unit of the run after it, and
\* one is there once the reading of the process's output has ended.
C2_ExactlyOneFinished ==
    \A p \in Procs :
        LET r == procs[p].run
        IN  /\ Cardinality(FinishedAt(r)) <= 1
            /\ \A i \in FinishedAt(r) :
                  \A j \in (i + 1)..Len(sent[r]) : sent[r][j].type # "stdout"
            /\ Drained(p) => Cardinality(FinishedAt(r)) = 1

\* C3: at most one process spawned by the session is alive at any time.
C3_AtMostOneAlive == Cardinality(Alive) <= 1

\* C4: once handle_client has returned, no process the session spawned is alive.
C4_CloseKillsAll == conn = "closed" => Alive = {}

C5_PreparationStep == pc \in PreparingPcs => conn' = "open"

\* C5: no step of the preparation of a run (dependency check, compile, spawn of
\* the interpreter or the binary) ends the session: the connection is open after it.
C5_SpawnFailureKeepsSession == [][C5_PreparationStep]_vars

\* ---- C6
CompileFailed(r) == \E i \in 1..Len(sent[r]) : sent[r][i].msg = CompilationFailed

C6_OnlyDiagnostic ==
    \A r \in Runs :
        CompileFailed(r) =>
            /\ sent[r] = <<Status(Compiling, r), Stdout("Compilation Error", r),
                           Status(CompilationFailed, r)>>
            /\ \A p \in Procs : procs[p].run # r
            /\ \A t \in Pumps : pumps[t].by # r
            /\ cur.id # r

C6_BackToIdle ==
    (pc = "compile" /\ \E i \in 1..Len(sent'[cur.id]) : sent'[cur.id][i].msg = CompilationFailed)
        => /\ pc' = "recv" /\ conn' = "open"
           /\ procs' = procs /\ pumps' = pumps /\ process' = process

\* C6: a compile step that exits non-zero spawns no binary and starts no pump; the
\* request's messages are the compiling status, the diagnostic and 'Compilation
\* Failed', and stay so; the handler is back at the message loop, connection open.
C6_CompileFailure == []C6_OnlyDiagnostic /\ [][C6_BackToIdle]_vars

\* a compile failure after which a later message was taken
C6_Witness == \E r \in Runs : CompileFailed(r) /\ nreq > r /\ conn = "open"

\* ---- C7
C7_InputTaken == nreq' = nreq + 1 /\ recvd'[nreq'] \in {"input", "input_dropped"}

C7_NoEffect ==
    (C7_InputTaken /\ (process = 0 \/ ~procs[process].alive))
        => /\ procs' = procs /\ pumps' = pumps /\ process' = process
           /\ sent' = Append(sent, <<>>)
           /\ conn' = conn /\ pc' = pc /\ children' = children

\* C7: an input taken while no process is held, or while the held process has
\* exited, writes to no process, sends nothing (then or later) and leaves the
\* session and the connection as they were.
C7_InputWithoutProcess ==
    /\ [](\A r \in Runs : recvd[r] = "input_dropped" => sent[r] = <<>>)
    /\ [][C7_NoEffect]_vars

\* an input was dropped because the held process had exited; the session goes on
C7_Witness ==
    /\ conn = "open" /\ process # 0
    /\ \E r \in Runs : recvd[r] = "input_dropped" /\ procs[process].run < r

AllowList == {"PATH", "HOME", "USER", "LANG", "TMPDIR", "PYTHONIOENCODING"}

\* C8: every child process is given only allow-listed variables (PATH, HOME, USER,
\* LANG, TMPDIR, the encoding directive) and never GEMINI_API_KEY.
C8_ChildEnvFiltered ==
    \A c \in children : c.env \subseteq AllowList /\ "GEMINI_API_KEY" \notin c.env

\* ---- C9
C9_OneError ==
    NoKey =>
        /\ netCalls = 0
        /\ pc # "ai_wait"
        /\ \A r \in Runs :
              recvd[r] = "ai_fix" => Len(sent[r]) = 1 /\ sent[r][1].type = "ai_error"

C9_SessionGoesOn ==
    (NoKey /\ nreq' = nreq + 1 /\ recvd'[nreq'] = "ai_fix")
        => /\ conn' = "open" /\ pc' = "recv"
           /\ procs' = procs /\ pumps' = pumps /\ process' = process

\* C9: with GEMINI_API_KEY unset or empty an ai_fix yields exactly one ai_error,
\* no request is posted to the remediation service, and the handler is back at
\* the message loop with the connection open.
C9_AiFixWithoutCredential == []C9_OneError /\ [][C9_SessionGoesOn]_vars

\* an ai_fix answered without a credential, and a later message taken after it
C9_Witness ==
    /\ NoKey /\ conn = "open"
    /\ \E r \in Runs : recvd[r] = "ai_fix" /\ nreq > r /\ Len(sent[r]) = 1

\* ---- C10
C10_AiStep ==
    \/ nreq' = nreq + 1 /\ recvd'[nreq'] = "ai_fix"
    \/ pc = "ai_wait" /\ pc' # "ai_wait"

C10_Frame == C10_AiStep => (procs' = procs /\ process' = process)

\* C10: a handler step that works on an ai_fix leaves the process handle and every
\* spawned process as they are.
C10_AiFixLeavesProcess == [][C10_Frame]_vars

\* ---- C11
ParsedOf(r) == Parse(Clean(r.text))

\* C11: an ai_response is sent only when the parsed result is a record (a JSON
\* object) with both fields explanation and fixed_code; every other parsed value
\* and every other reply yields an ai_error; the session goes on.
C11_ResponseOnlyForRecord ==
    ai_msg # NoReply =>
        /\ conn = "open" /\ pc = "recv"
        /\ ai_msg.type \in {"ai_response", "ai_error"}
        /\ ai_msg.type = "ai_response" <=>
              /\ response.how = "reply" /\ response.status = 200 /\ response.body = "text"
              /\ ParsedOf(response).kind = "dict"
              /\ Required \subseteq ParsedOf(response).keys

\* ---- C12
BothFields == {v \in JsonValues : v.kind = "dict" /\ Required \subseteq v.keys}

\* C12: when the generated text is a record with both fields wrapped in fence
\* markers (a fence, or a fence followed by json, before it and a fence after
\* it), whatever the two field values contain, the message sent is the
\* ai_response carrying that record, as for the bare payload.
C12_FencedSameAsBare ==
    ai_msg # NoReply =>
        \A w \in {"fence", "fence_json"}, v \in BothFields :
            (/\ response.how = "reply" /\ response.status = 200 /\ response.body = "text"
             /\ response.text = Wrap(w, Render(v)))
                => ai_msg.type = "ai_response" /\ ai_msg.data = v

\* ---- C13
\* what a message to the client must not be built from
Unsafe == {"credential", "api_url", "exception text", "traceback", "body", "ai_text",
           "parsed_response"}

\* C13: an ai_error sent to the client is a fixed text, with at most the HTTP
\* status or the name of the exception type put into it: never the credential,
\* the request URL, the text of the exception or the body of the service's
\* reply, which go to the server log only.
C13_SafeErrors ==
    ai_msg.type = "ai_error" =>
        /\ ai_msg.carries \cap Unsafe = {}
        /\ ai_msg.data = <<>>
        /\ ai_msg = ServerError => "exception text" \in ai_log

\* an exception ended the branch: its text is in the log, the client got the type
C13_Witness ==
    /\ ai_msg.type = "ai_error" /\ ai_msg.carries = {"exception type"}
    /\ {"exception text", "traceback", "body"} \subseteq ai_log

\* ---- C14
\* a step in which read_stream thread t stops reading
C14_PumpEnds(t) == pumps[t].pc = "read" /\ pumps'[t].pc = "done"

C14_FinishedOnEnd ==
    \A t \in Pumps :
        C14_PumpEnds(t) =>
            LET r == procs[pumps[t].proc].run
            IN  /\ Cardinality(FinishedAt(r)') = Cardinality(FinishedAt(r)) + 1
                /\ conn' = conn /\ pc' = pc

\* C14: whenever a read_stream thread stops reading, at end of stream or because
\* the read raised, the 'Program finished' status of its run is emitted once in
\* that step, and the session and the connection are as before.
C14_ReadFailureLikeEof == [][C14_FinishedOnEnd]_vars

\* ---- C15
\* C15: with several sessions on the one event loop, what is compiled for session
\* S and what the process spawned for S executes is the source text S submitted.
C15_OwnSource ==
    \A S \in Sessions : built[S] \in {0, S} /\ ran[S] \in {0, S}

\* ---- C16
\* C16: a read_stream thread is started only by the run request that spawned the
\* process it reads, so each process has at most one, and no output unit or
\* 'Program finished' status is sent on behalf of a run that spawned nothing.
C16_OnePumpPerProcess ==
    /\ \A t \in Pumps : pumps[t].by = procs[pumps[t].proc].run
    /\ \A p \in Procs : Cardinality(PumpsOf(p)) <= 1
    /\ \A r \in Runs : \A i \in 1..Len(sent[r]) :
          (sent[r][i].unit > 0 \/ sent[r][i].msg = Finished) => sent[r][i].req = r

\* ---- C17
\* a read_stream thread has not reached the end of its stream
Draining == \E t \in Pumps : pumps[t].pc # "done"

\* the handler never waits for a thread: at the message loop both an input and an
\* ai_fix can be taken, and in the middle of a request its next step can be taken
C17_Responsive ==
    (conn = "open" /\ Draining) =>
        /\ (pc = "recv" /\ nreq < MaxMsgs) =>
              /\ ENABLED (\E m \in Inbound : RecvInput(m))
              /\ ENABLED (\E m \in Inbound : RecvAiFix(m))
        /\ pc \notin {"recv", "done"} => ENABLED HandlerStep

\* a step that takes an input while the held process is alive
C17_InputWhileAlive == C7_InputTaken /\ InputGuard(process)

C17_Written ==
    C17_InputWhileAlive => procs' = [procs EXCEPT ![process].stdin = @ + 1]

\* C17: while output is draining the message loop stays responsive (an input or
\* ai_fix is handled without waiting for the end of the stream), and an input
\* taken while the process is alive is written to that process's input.
C17_ResponsiveAndWritten == []C17_Responsive /\ [][C17_Written]_vars

C17_WrittenOrDropped ==
    C17_InputWhileAlive =>
        /\ \/ procs' = [procs EXCEPT ![process].stdin = @ + 1]
           \/ procs' = procs
        /\ recvd'[nreq'] = "input"
        /\ pc' = pc /\ conn' = conn /\ pumps' = pumps /\ process' = process
        /\ sent' = Append(sent, <<>>)

\* C17, the write being allowed to fail: while output is draining the message loop stays responsive, and
\* an input taken while the process is alive is written to that process's input
\* in that very step unless the write raises, in which case it is dropped.
C17_ResponsiveAndForwarded == []C17_Responsive /\ [][C17_WrittenOrDropped]_vars

\* an input reached a process whose output a thread is still reading
C17_Witness ==
    \E p \in Procs : procs[p].stdin > 0 /\ \E t \in PumpsOf(p) : pumps[t].pc # "done"

\* ---- C18
\* a step that writes an input to process p
C18_Forwarded(p) == procs'[p].stdin > procs[p].stdin

C18_OnlyWhileRunning ==
    \A p \in Procs :
        C18_Forwarded(p) => p = process /\ FinishedAt(procs[p].run) = {}

\* C18: an input is written only to the process the session is Running for, and
\* only before the 'Program finished' status of that run has been emitted; after
\* it the session is Idle and the input is ignored.
C18_InputOnlyWhileRunning == [][C18_OnlyWhileRunning]_vars

\* ---- C19
\* the place of a message in the course of a run: the preparing status, what the
\* package installer reports, the running status, the output of the process, the
\* finished status
Phase(m) ==
    CASE m.msg \in {Checking, Compiling} -> 1
      [] m.msg \in {RunningMsg("python"), RunningMsg("c")} -> 3
      [] m.type = "stdout" /\ m.unit > 0 -> 4
      [] m.msg = Finished -> 5
      [] OTHER -> 2

PhasesIn(r) == {Phase(sent[r][i]) : i \in 1..Len(sent[r])}

\* the session has taken one run request and r is it
SingleRun(r) == recvd[r] = "run" /\ Cardinality({q \in Runs : recvd[q] = "run"}) = 1

Handled(r) == r <= nreq /\ (conn = "closed" \/ cur.id # r)

\* C20: every ai_fix the handler has dealt with got exactly one reply, an
\* ai_response or an ai_error, and while it is being dealt with none was sent yet.
C20_ExactlyOneReply ==
    \A r \in 1..nreq :
        recvd[r] = "ai_fix" =>
            LET replies == IF r \in Runs THEN sent[r] ELSE <<>>
            IN  /\ Len(replies) <= 1
                /\ \A i \in 1..Len(replies) : replies[i].type \in {"ai_response", "ai_error"}
                /\ Handled(r) => Len(replies) = 1

====
